---- MODULE Spec2Model ----
(***************************************************************************)
(* A state-machine model of main.py: a script that resolves one look-at    *)
(* point, optionally removes the cameras and lights of the host scene, and *)
(* then adds num_cameras camera/light pairs on a ring.                     *)
(*                                                                         *)
(* The host (bpy) is modelled by the part of its state the script reads or *)
(* writes: the scene's objects in enumeration order, the active object,    *)
(* the interaction mode, and the host's rule that object names are unique. *)
(* Absent values (None) are the empty tuple <<>>, present ones <<v>>.      *)
(***************************************************************************)
EXTENDS Integers, Sequences, FiniteSets, TLC

VARIABLES
    scene,      \* bpy.context.scene.objects, in the host's enumeration order
    active,     \* id of bpy.context.active_object, 0 when there is none
    mode,       \* bpy.context.mode
    nextId,     \* identity the host gives the next object it creates
    args,       \* the parsed command line (argparse.Namespace)
    pc,         \* position in main: start, clean, loop, light, done, failed
    look_at,    \* main's local look_at, <<>> before it is assigned
    i,          \* main's loop variable
    cam,        \* add_camera_and_light's local cam (an object id), 0 outside
    run,        \* which invocation of main this is (1 or 2)
    raised,     \* the exception that left main, "none" when none did
    log,        \* history: the host mutations of this run, in order
    pre,        \* history: ids of the objects in the scene when this run began
    resolves,   \* history: calls of determine_look_at_point in this run
    target0,    \* history: what the first such call returned
    geo         \* add_camera_and_light's geometry, worked in Cartesian coordinates

vars == <<scene, active, mode, nextId, args, pc, look_at, i, cam, run, raised,
          log, pre, resolves, target0, geo>>

-----------------------------------------------------------------------------
(* Bounds and input sets *)

MaxCameras == 2

NumCameras == 0..MaxCameras
Radii == {25}
BaseHeights == {3}
HeightVariations == {-1, 0, 1}
LightEnergies == {1000}
LightOffsets == {2}
\* --look_at_x/y/z: unspecified (the defaults) or one explicit point
ExplicitPoints == {<<0, 0, 0>>, <<4, 5, 6>>}
\* (--object_name, --vertex_index) as given on the command line
NamedSources ==
    { <<<<>>, <<>>>>, <<<<"Cube">>, <<>>>>, <<<<>>, <<0>>>>, <<<<"">>, <<0>>>>,
      <<<<"Cube">>, <<0>>>>, <<<<"Cube">>, <<1>>>>, <<<<"Cube">>, <<2>>>>,
      <<<<"Cube">>, <<-1>>>>, <<<<"Empty">>, <<0>>>>, <<<<"Nope">>, <<0>>>> }

-----------------------------------------------------------------------------
(* Host objects *)

Obj(id, type, name) ==
    [id |-> id, type |-> type, name |-> name, verts |-> <<>>, scale |-> 1,
     loc |-> <<0, 0, 0>>, run |-> 0, idx |-> 0, parent |-> 0, place |-> <<>>,
     aim |-> <<>>, energy |-> 0, offset |-> 0]

Vert(co, sel, esel) == [co |-> co, select |-> sel, esel |-> esel]

\* A two-vertex mesh with a non-identity world transform.  select is the flag
\* stored in the mesh data, esel the selection of the edit session (the two
\* agree outside edit mode).
Cube(id, sel, esel) ==
    [Obj(id, "MESH", "Cube") EXCEPT
        !.verts = << Vert(<<1, 0, 0>>, sel[1], esel[1]),
                     Vert(<<0, 2, 0>>, sel[2], esel[2]) >>,
        !.scale = 2, !.loc = <<1, 1, 1>>]

Ids(sc) == {sc[k].id : k \in 1..Len(sc)}
Names(sc) == {sc[k].name : k \in 1..Len(sc)}
ById(sc, id) == sc[CHOOSE k \in 1..Len(sc) : sc[k].id = id]

\* matrix_world @ co, for a world matrix made of a uniform scale and a translation
World(obj, co) == [k \in 1..3 |-> obj.scale * co[k] + obj.loc[k]]

-----------------------------------------------------------------------------
(* Results of calls that may raise *)

Ok(v) == [exc |-> "none", val |-> v]
Raise(e) == [exc |-> e, val |-> <<>>]

-----------------------------------------------------------------------------
(* get_vertex_world_coordinate *)

ObjectsGet(sc, obj_name) ==
    IF \E k \in 1..Len(sc) : sc[k].name = obj_name
    THEN <<sc[CHOOSE k \in 1..Len(sc) : sc[k].name = obj_name]>>
    ELSE <<>>

get_vertex_world_coordinate(sc, obj_name, vertex_index) ==
    LET found == ObjectsGet(sc, obj_name) IN
    IF found = <<>> THEN Raise("ValueError")
    ELSE LET obj == found[1] IN
         IF obj.type # "MESH" THEN Raise("ValueError")
         ELSE IF vertex_index < 0 \/ vertex_index >= Len(obj.verts)
              THEN Raise("ValueError")
              ELSE Ok(World(obj, obj.verts[vertex_index + 1].co))

-----------------------------------------------------------------------------
(* get_selected_vertex_world_coordinate *)

\* bpy.ops.object.mode_set(mode='OBJECT'): leaving edit mode writes the edit
\* session's selection into the mesh data of the object being edited.
FlushEdit(obj) ==
    [obj EXCEPT !.verts = [k \in 1..Len(obj.verts) |->
                              [obj.verts[k] EXCEPT !.select = obj.verts[k].esel]]]

ModeSetObject(sc, act) ==
    [k \in 1..Len(sc) |-> IF sc[k].id = act THEN FlushEdit(sc[k]) ELSE sc[k]]

SceneAfterModeCheck(sc, act, md) ==
    IF md # "OBJECT" THEN ModeSetObject(sc, act) ELSE sc

IsSelected(v) == v.select

get_selected_vertex_world_coordinate(sc, act, md) ==
    LET sc1 == SceneAfterModeCheck(sc, act, md) IN
    IF act = 0 \/ ById(sc1, act).type # "MESH" THEN Raise("TypeError")
    ELSE LET active_obj == ById(sc1, act)
             selected_vertices == SelectSeq(active_obj.verts, IsSelected)
         IN  IF selected_vertices = <<>> THEN Raise("ValueError")
             ELSE Ok(World(active_obj, selected_vertices[1].co))

-----------------------------------------------------------------------------
(* determine_look_at_point *)

\* Variant: the first handler written as "except ValueError"
SelectedCaughtValueOnly == {"ValueError"}

SelectedCaught == {"ValueError", "TypeError"}
NamedCaught == {"ValueError"}

\* Python truth of args.object_name: given and not the empty string
Truthy(opt) == opt # <<>> /\ opt[1] # ""

ExplicitPoint(a) == <<a.look_at_x, a.look_at_y, a.look_at_z>>

\* Variant: "and args.vertex_index" in place of "is not None" (0 reads as absent)
NamedOrExplicitTruthyIndex(a, sc) ==
    IF Truthy(a.object_name) /\ a.vertex_index # <<>> /\ a.vertex_index[1] # 0
    THEN LET r == get_vertex_world_coordinate(sc, a.object_name[1], a.vertex_index[1])
         IN  IF r.exc = "none" THEN r
             ELSE IF r.exc \in NamedCaught THEN Ok(ExplicitPoint(a))
             ELSE r
    ELSE Ok(ExplicitPoint(a))

NamedOrExplicit(a, sc) ==
    IF Truthy(a.object_name) /\ a.vertex_index # <<>>
    THEN LET r == get_vertex_world_coordinate(sc, a.object_name[1], a.vertex_index[1])
         IN  IF r.exc = "none" THEN r
             ELSE IF r.exc \in NamedCaught THEN Ok(ExplicitPoint(a))
             ELSE r
    ELSE Ok(ExplicitPoint(a))

determine_look_at_point(a, sc, act, md) ==
    IF a.use_selected_vertex
    THEN LET r == get_selected_vertex_world_coordinate(sc, act, md)
             sc1 == SceneAfterModeCheck(sc, act, md)
         IN  IF r.exc = "none" THEN r
             ELSE IF r.exc \in SelectedCaught THEN NamedOrExplicit(a, sc1)
             ELSE r
    ELSE NamedOrExplicit(a, sc)

-----------------------------------------------------------------------------
(* parse_arguments *)

ArgSpace ==
    { [num_cameras |-> n, radius |-> r, base_height |-> b, height_variation |-> hv,
       look_at_x |-> p[1], look_at_y |-> p[2], look_at_z |-> p[3],
       use_selected_vertex |-> us, object_name |-> ns[1], vertex_index |-> ns[2],
       light_energy |-> le, light_offset |-> lo, clean_scene |-> cl] :
      n \in NumCameras, r \in Radii, b \in BaseHeights, hv \in HeightVariations,
      p \in ExplicitPoints, us \in BOOLEAN, ns \in NamedSources,
      le \in LightEnergies, lo \in LightOffsets, cl \in BOOLEAN }

-----------------------------------------------------------------------------
(* Initial host states *)

FF == <<FALSE, FALSE>>
FT == <<FALSE, TRUE>>
TT == <<TRUE, TRUE>>

StartScene(sel, esel) ==
    << Obj(1, "CAMERA", "Camera"),
       [Obj(2, "LIGHT", "Light") EXCEPT !.energy = 1000],
       Cube(3, sel, esel),
       Obj(4, "EMPTY", "Empty") >>

\* <<scene, active object, mode>>.  In edit mode the active object is the mesh
\* being edited and its stored select flags may be stale.
HostStates ==
    { <<StartScene(s, s), a, "OBJECT">> : s \in {FF, FT, TT}, a \in {0, 1, 3, 4} }
    \cup { <<StartScene(FF, FT), 3, "EDIT_MESH">>,
           <<StartScene(TT, FF), 3, "EDIT_MESH">> }

Init ==
    /\ \E h \in HostStates : scene = h[1] /\ active = h[2] /\ mode = h[3]
    /\ nextId = 5
    /\ args \in ArgSpace
    /\ pc = "start"
    /\ look_at = <<>>
    /\ i = 0
    /\ cam = 0
    /\ run = 1
    /\ raised = "none"
    /\ log = <<>>
    /\ pre = {1, 2, 3, 4}
    /\ resolves = 0
    /\ target0 = <<>>
    /\ geo = [pc |-> "off"]

-----------------------------------------------------------------------------
(* main, lines 254-264: parse the arguments and resolve the look-at point *)

AfterResolve(a) == IF a.clean_scene THEN "clean" ELSE "loop"

MainBegin ==
    /\ pc = "start"
    /\ LET r == determine_look_at_point(args, scene, active, mode)
           touched == args.use_selected_vertex /\ mode # "OBJECT"
       IN  /\ scene' = IF touched THEN ModeSetObject(scene, active) ELSE scene
           /\ mode' = IF touched THEN "OBJECT" ELSE mode
           /\ resolves' = resolves + 1
           /\ IF r.exc = "none"
              THEN /\ look_at' = r.val
                   /\ target0' = r.val
                   /\ pc' = AfterResolve(args)
                   /\ raised' = raised
              ELSE /\ look_at' = look_at
                   /\ target0' = target0
                   /\ pc' = "failed"
                   /\ raised' = r.exc
    /\ UNCHANGED <<geo, active, nextId, args, i, cam, run, log, pre>>

-----------------------------------------------------------------------------
(* clean_scene *)

Removable(obj) == obj.type = "CAMERA" \/ obj.type = "LIGHT"

\* bpy.data.objects.remove(obj, do_unlink=True): the object leaves the scene
\* and every reference to it (a child's parent) is cleared.
ObjectsRemove(sc, k) ==
    LET gone == sc[k].id
        rest == SubSeq(sc, 1, k - 1) \o SubSeq(sc, k + 1, Len(sc))
    IN  [j \in 1..Len(rest) |->
            IF rest[j].parent = gone THEN [rest[j] EXCEPT !.parent = 0] ELSE rest[j]]

\* Variant: a cursor that counts positions, as a Python list's iterator does
NextCursorList(k, removed) == k + 1

\* The cursor of "for obj in bpy.context.scene.objects" after the body ran at
\* position k.  The host's iterator has already stepped to the following
\* object when the body runs, so removing the current object loses none:
\* the following object is now at position k.
NextCursor(k, removed) == IF removed THEN k ELSE k + 1

\* The loop from position k on; budget is the number of removals the host
\* still carries out (a removal that raises ends the loop).
RECURSIVE CleanFrom(_, _, _)
CleanFrom(sc, k, budget) ==
    IF k > Len(sc) THEN sc
    ELSE IF Removable(sc[k])
         THEN IF budget = 0 THEN sc
              ELSE CleanFrom(ObjectsRemove(sc, k), NextCursor(k, TRUE), budget - 1)
         ELSE CleanFrom(sc, NextCursor(k, FALSE), budget)

RemovedIds(before, after) ==
    LET Gone(obj) == obj.id \notin Ids(after)
        gone == SelectSeq(before, Gone)
    IN  [k \in 1..Len(gone) |-> <<"remove", gone[k].id>>]

NumRemovable(sc) == Cardinality({k \in 1..Len(sc) : Removable(sc[k])})

CleanScene ==
    /\ pc = "clean"
    /\ LET after == CleanFrom(scene, 1, Len(scene)) IN
       /\ scene' = after
       /\ active' = IF active \in Ids(after) THEN active ELSE 0
       /\ log' = log \o RemovedIds(scene, after)
    /\ pc' = "loop"
    /\ UNCHANGED <<geo, mode, nextId, args, look_at, i, cam, run, raised, pre,
                   resolves, target0>>

\* A removal raises in the host: the exception leaves clean_scene and main.
CleanSceneFails ==
    /\ pc = "clean"
    /\ \E done \in 0..(NumRemovable(scene) - 1) :
         LET after == CleanFrom(scene, 1, done) IN
         /\ scene' = after
         /\ active' = IF active \in Ids(after) THEN active ELSE 0
         /\ log' = log \o RemovedIds(scene, after)
    /\ pc' = "failed"
    /\ raised' = "RuntimeError"
    /\ UNCHANGED <<geo, mode, nextId, args, look_at, i, cam, run, pre, resolves, target0>>

-----------------------------------------------------------------------------
(* The host's unique object names *)

Dup(base, n) == base \o ".00" \o ToString(n)

\* The name an object ends up with when `want` is assigned to it and the
\* other objects hold the names `taken`.
UniqueName(taken, want) ==
    IF want \notin taken THEN want
    ELSE Dup(want, CHOOSE n \in 1..9 :
                      /\ Dup(want, n) \notin taken
                      /\ \A m \in 1..(n - 1) : Dup(want, m) \in taken)

\* Variant: the light named with the camera's prefix
LightNameAsCamera(index) == "Camera_" \o ToString(index)

CameraName(index) == "Camera_" \o ToString(index)
LightName(index) == "Light_" \o ToString(index)

-----------------------------------------------------------------------------
(* add_camera_and_light *)

\* One full turn (2 * math.pi), in degrees: every count up to 6 divides it.
FullTurn == 360

\* Variant: the angle taken from the 1-based index
AngleFromIndex(k, num_cameras) ==
    IF num_cameras = 0 THEN Raise("ZeroDivisionError")
    ELSE Ok((k + 1) * (FullTurn \div num_cameras))

\* i * (2 * math.pi / num_cameras); the division raises when the count is 0
Angle(k, num_cameras) ==
    IF num_cameras = 0 THEN Raise("ZeroDivisionError")
    ELSE Ok(k * (FullTurn \div num_cameras))

\* Variant: index=i
IndexZeroBased(k) == k

Index(k) == k + 1

\* Variant: random.uniform(-height_variation, height_variation)
UniformSymmetric(a, b) == IF b >= 0 THEN (0 - b)..b ELSE b..(0 - b)

\* random.uniform(0, height_variation): a + (b - a) * random(), which lies
\* between 0 and height_variation on whichever side of 0 that is.
Uniform(a, b) == IF a <= b THEN a..b ELSE b..a

\* Variant: the target resolved again for each camera
OrientTargetResolvedAgain == determine_look_at_point(args, scene, active, mode).val

\* The look_at argument of the call at lines 273-282
OrientTarget == look_at

AddCamera ==
    /\ pc = "loop"
    /\ i < args.num_cameras
    /\ \E u \in Uniform(0, args.height_variation) :
         LET angle == Angle(i, args.num_cameras)
             z == args.base_height + u
             fresh == Obj(nextId, "CAMERA", UniqueName(Names(scene), "Camera"))
             name == UniqueName(Names(scene), CameraName(Index(i)))
         IN  IF angle.exc = "none"
             THEN /\ scene' = Append(scene,
                        [fresh EXCEPT !.name = name, !.run = run, !.idx = Index(i),
                                      !.place = <<args.radius, angle.val, z>>,
                                      !.aim = OrientTarget])
                  /\ active' = nextId
                  /\ cam' = nextId
                  /\ nextId' = nextId + 1
                  /\ log' = Append(log, <<"camera", Index(i)>>)
                  /\ pc' = "light"
                  /\ raised' = raised
             ELSE /\ pc' = "failed"
                  /\ raised' = angle.exc
                  /\ UNCHANGED <<scene, active, cam, nextId, log>>
    /\ UNCHANGED <<geo, mode, args, look_at, i, run, pre, resolves, target0>>

AddLight ==
    /\ pc = "light"
    /\ LET fresh == Obj(nextId, "LIGHT", UniqueName(Names(scene), "Point"))
           name == UniqueName(Names(scene), LightName(Index(i)))
       IN  scene' = Append(scene,
               [fresh EXCEPT !.name = name, !.run = run, !.idx = Index(i),
                             !.place = ById(scene, cam).place,
                             !.energy = args.light_energy,
                             !.parent = cam,
                             !.offset = args.light_offset])
    /\ active' = nextId
    /\ nextId' = nextId + 1
    /\ log' = Append(log, <<"light", Index(i)>>)
    /\ cam' = 0
    /\ i' = i + 1
    /\ pc' = "loop"
    /\ UNCHANGED <<geo, mode, args, look_at, run, raised, pre, resolves, target0>>

\* bpy.ops.object.camera_add raises: nothing was created for this index.
CameraAddFails ==
    /\ pc = "loop"
    /\ i < args.num_cameras
    /\ pc' = "failed"
    /\ raised' = "RuntimeError"
    /\ UNCHANGED <<geo, scene, active, mode, nextId, args, look_at, i, cam, run, log,
                   pre, resolves, target0>>

\* Variant: the light's failure is swallowed and the loop goes on
LightAddSwallowed ==
    /\ pc = "light"
    /\ cam' = 0
    /\ i' = i + 1
    /\ pc' = "loop"
    /\ UNCHANGED <<geo, scene, active, mode, nextId, args, look_at, run, raised, log,
                   pre, resolves, target0>>

\* bpy.ops.object.light_add raises: the camera of this index stays.
LightAddFails ==
    /\ pc = "light"
    /\ pc' = "failed"
    /\ raised' = "RuntimeError"
    /\ UNCHANGED <<geo, scene, active, mode, nextId, args, look_at, i, cam, run, log,
                   pre, resolves, target0>>

\* range(num_cameras) is exhausted: main returns.
Finish ==
    /\ pc = "loop"
    /\ i >= args.num_cameras
    /\ pc' = "done"
    /\ UNCHANGED <<geo, scene, active, mode, nextId, args, look_at, i, cam, run, raised,
                   log, pre, resolves, target0, geo>>

\* The same command line is run once more on the scene the first run left.
Rerun ==
    /\ pc = "done"
    /\ run = 1
    /\ run' = 2
    /\ pc' = "start"
    /\ look_at' = <<>>
    /\ i' = 0
    /\ cam' = 0
    /\ log' = <<>>
    /\ pre' = Ids(scene)
    /\ resolves' = 0
    /\ target0' = <<>>
    /\ UNCHANGED <<geo, scene, active, mode, nextId, args, raised>>

Next ==
    \/ MainBegin
    \/ CleanScene
    \/ CleanSceneFails
    \/ AddCamera
    \/ AddLight
    \/ CameraAddFails
    \/ LightAddFails
    \/ Finish
    \/ Rerun

Spec == Init /\ [][Next]_vars

-----------------------------------------------------------------------------
(* add_camera_and_light in Cartesian coordinates.                           *)
(* The inputs are those for which every quantity is an integer: cameras on  *)
(* quarter turns of the ring and a target level with the camera on one of   *)
(* its two horizontal axes, so that the viewing direction is a signed unit  *)
(* vector.                                                                  *)

Add(u, v) == [k \in 1..3 |-> u[k] + v[k]]
Sub(u, v) == [k \in 1..3 |-> u[k] - v[k]]
Scale(c, v) == [k \in 1..3 |-> c * v[k]]
Cross(u, v) == << u[2] * v[3] - u[3] * v[2],
                  u[3] * v[1] - u[1] * v[3],
                  u[1] * v[2] - u[2] * v[1] >>
Sgn(x) == IF x > 0 THEN 1 ELSE IF x < 0 THEN -1 ELSE 0

\* math.cos / math.sin at whole quarter turns (degrees)
Cos(a) == CASE a % FullTurn = 0 -> 1 [] a % FullTurn = 90 -> 0
            [] a % FullTurn = 180 -> -1 [] a % FullTurn = 270 -> 0
Sin(a) == CASE a % FullTurn = 0 -> 0 [] a % FullTurn = 90 -> 1
            [] a % FullTurn = 180 -> 0 [] a % FullTurn = 270 -> -1

\* Vector.normalized() of a vector along one axis
Unit(v) == [k \in 1..3 |-> Sgn(v[k])]

\* direction.to_track_quat('-Z', 'Y') for a horizontal direction, as the
\* world images of the local axes: local -Z along the direction, local Y up
\* (world +Z), local X completing the right-handed frame.
ToTrackQuat(direction) ==
    LET zaxis == Scale(-1, Unit(direction))
        yaxis == <<0, 0, 1>>
    IN  [x |-> Cross(yaxis, zaxis), y |-> yaxis, z |-> zaxis]

\* quaternion @ Vector
Rotate(q, v) == Add(Add(Scale(v[1], q.x), Scale(v[2], q.y)), Scale(v[3], q.z))

\* matrix_world @ v for an object at `location` with rotation q
ToWorld(location, q, v) == Add(location, Rotate(q, v))

QuarterCounts == {1, 2, 4}
GeoRadii == {1, 2}
GeoHeights == {0, 1}
GeoOffsets == {-1, 1, 2}
GeoTargets == {<<x, y, z>> : x \in -2..2, y \in -2..2, z \in GeoHeights}

Position(g) == << g.radius * Cos(g.angle), g.radius * Sin(g.angle), g.z >>

Aligned(g) ==
    LET d == Sub(g.look_at, Position(g)) IN
    /\ d[3] = 0
    /\ (d[1] = 0) # (d[2] = 0)

GeoInputs ==
    { g \in [pc : {"input"}, radius : GeoRadii,
             angle : {Angle(k, n).val : n \in QuarterCounts, k \in 0..3},
             z : GeoHeights, look_at : GeoTargets, light_offset : GeoOffsets,
             location : {<<>>}, rotation : {<<>>}, light_location : {<<>>},
             light_parent : {"none"}, light_world : {<<>>}] :
        g.angle < FullTurn /\ Aligned(g) }

GeoInit ==
    /\ geo \in GeoInputs
    /\ scene = <<>> /\ active = 0 /\ mode = "OBJECT" /\ nextId = 1
    /\ args = <<>> /\ pc = "geometry" /\ look_at = <<>> /\ i = 0 /\ cam = 0
    /\ run = 1 /\ raised = "none" /\ log = <<>> /\ pre = {} /\ resolves = 0
    /\ target0 = <<>>

\* Lines 225-237: the camera is placed and turned toward the target.
GeoAddCamera ==
    /\ geo.pc = "input"
    /\ LET location == Position(geo)
           direction == Sub(geo.look_at, location)
       IN  geo' = [geo EXCEPT !.pc = "camera", !.location = location,
                              !.rotation = ToTrackQuat(direction)]
    /\ UNCHANGED <<scene, active, mode, nextId, args, pc, look_at, i, cam, run,
                   raised, log, pre, resolves, target0>>

\* Lines 239-247: the light is added at the camera's place, made its child,
\* and given cam.location + rotation @ (0, 0, light_offset) as its location.
\* light.location is relative to the parent (the parent-inverse matrix is
\* left at the identity), so the light's world position is the camera's
\* world matrix applied to it.
GeoAddLight ==
    /\ geo.pc = "camera"
    /\ LET location == Add(geo.location,
                           Rotate(geo.rotation, <<0, 0, geo.light_offset>>))
       IN  geo' = [geo EXCEPT !.pc = "done", !.light_parent = "cam",
                              !.light_location = location,
                              !.light_world = ToWorld(geo.location, geo.rotation, location)]
    /\ UNCHANGED <<scene, active, mode, nextId, args, pc, look_at, i, cam, run,
                   raised, log, pre, resolves, target0>>

GeoNext == GeoAddCamera \/ GeoAddLight

GeoSpec == GeoInit /\ [][GeoNext]_vars

\* The unit viewing direction of the camera (its local -Z axis in world space)
Forward(g) == Scale(-1, g.rotation.z)

\* C6: the light is the child of its camera and its world position is
\* P + d * f: P the camera's world position, d = light_offset, f the unit
\* viewing direction of the camera, so that the light lies at distance |d|
\* from P on the side the camera looks toward.
C6_Original ==
    geo.pc = "done" =>
        /\ geo.light_parent = "cam"
        /\ Forward(geo) = Unit(Sub(geo.look_at, geo.location))
        /\ geo.light_world = Add(geo.location, Scale(geo.light_offset, Forward(geo)))

-----------------------------------------------------------------------------
(* Properties *)

Mine(type) == {k \in 1..Len(scene) : scene[k].run = run /\ scene[k].type = type}
MyCameras == Mine("CAMERA")
MyLights == Mine("LIGHT")
IdxOf(S) == {scene[k].idx : k \in S}
OfType(type) == {k \in 1..Len(scene) : scene[k].type = type}

\* The state main is in right after determine_look_at_point returned: the
\* host is as the resolver left it.
JustResolved == pc \in {"clean", "loop"} /\ i = 0 /\ log = <<>> /\ resolves = 1

\* The vertices the host shows as selected on obj
ShownSelected(obj) ==
    {k \in 1..Len(obj.verts) :
        IF mode # "OBJECT" /\ obj.id = active THEN obj.verts[k].esel
        ELSE obj.verts[k].select}

SelectedAvailable ==
    /\ args.use_selected_vertex
    /\ active # 0
    /\ ById(scene, active).type = "MESH"
    /\ ShownSelected(ById(scene, active)) # {}

NamedAvailable ==
    /\ args.object_name # <<>>
    /\ args.vertex_index # <<>>
    /\ \E k \in 1..Len(scene) :
         /\ scene[k].name = args.object_name[1]
         /\ scene[k].type = "MESH"
         /\ 0 <= args.vertex_index[1]
         /\ args.vertex_index[1] < Len(scene[k].verts)

SelectedPoint ==
    LET obj == ById(scene, active)
        first == CHOOSE k \in ShownSelected(obj) : \A m \in ShownSelected(obj) : k <= m
    IN  World(obj, obj.verts[first].co)

NamedPoint ==
    LET obj == scene[CHOOSE k \in 1..Len(scene) : scene[k].name = args.object_name[1]]
    IN  World(obj, obj.verts[args.vertex_index[1] + 1].co)

\* C1: the look-at point is the first available source in the order selected
\* vertex > named vertex > explicit coordinates: the world position of the
\* first selected vertex of the active mesh when use_selected_vertex is set
\* and there is one; otherwise the world position of the named vertex when
\* object_name and vertex_index (0 included) name a vertex of a mesh;
\* otherwise (look_at_x, look_at_y, look_at_z).
C1_Priority ==
    JustResolved =>
        look_at = IF SelectedAvailable THEN SelectedPoint
                  ELSE IF NamedAvailable THEN NamedPoint
                  ELSE <<args.look_at_x, args.look_at_y, args.look_at_z>>

\* All three sources are available and differ, and index 0 is the named one.
C1_Witness ==
    /\ JustResolved
    /\ SelectedAvailable
    /\ NamedAvailable
    /\ args.vertex_index = <<0>>
    /\ SelectedPoint # NamedPoint
    /\ look_at = SelectedPoint
    /\ look_at # <<args.look_at_x, args.look_at_y, args.look_at_z>>

\* C2: no exception of the resolver leaves determine_look_at_point: once it
\* was called, main holds a point and went on to clean-scene / the camera
\* loop; the only exception that ever leaves main is a host failure while
\* the scene is being changed.
C2_NeverRaises ==
    /\ raised \in {"none", "RuntimeError"}
    /\ resolves >= 1 =>
          /\ Len(look_at) = 3
          /\ pc \in {"clean", "loop", "light", "done", "failed"}
          /\ pc = "failed" => raised = "RuntimeError" /\ (args.clean_scene \/ args.num_cameras > 0)

\* Both sources missed (no active object, index out of range) and the run
\* went on with the explicit coordinates.
C2_Witness ==
    /\ JustResolved
    /\ args.use_selected_vertex
    /\ active = 0
    /\ args.object_name = <<"Cube">>
    /\ args.vertex_index = <<2>>
    /\ look_at = <<args.look_at_x, args.look_at_y, args.look_at_z>>
    /\ raised = "none"

AngleOfIdx(j) == scene[CHOOSE k \in MyCameras : scene[k].idx = j].place[2]

\* C3: a run creates exactly num_cameras camera/light pairs; camera j
\* (1-based) sits at angle (j-1) * (full turn / num_cameras), so the angles
\* increase strictly with j, are one num_cameras-th of a turn apart and lie
\* in [0, full turn); with num_cameras = 0 nothing is created, nothing is
\* divided by zero and the run ends without error.
C3_Ring ==
    LET n == args.num_cameras IN
    /\ \A k \in MyCameras :
         /\ n * scene[k].place[2] = (scene[k].idx - 1) * FullTurn
         /\ 0 <= scene[k].place[2]
         /\ scene[k].place[2] < FullTurn
    /\ \A j \in IdxOf(MyCameras) :
         (j + 1) \in IdxOf(MyCameras) =>
            /\ AngleOfIdx(j) < AngleOfIdx(j + 1)
            /\ n * (AngleOfIdx(j + 1) - AngleOfIdx(j)) = FullTurn
    /\ Cardinality(MyCameras) <= n
    /\ pc = "done" => /\ Cardinality(MyCameras) = n
                      /\ Cardinality(MyLights) = n
                      /\ IdxOf(MyCameras) = 1..n
                      /\ \A k \in MyLights :
                           \E c \in MyCameras : /\ scene[c].id = scene[k].parent
                                                /\ scene[c].idx = scene[k].idx
    /\ n = 0 => /\ MyCameras = {} /\ MyLights = {}
                /\ raised # "ZeroDivisionError"
                /\ pc = "loop" => ENABLED Finish
                /\ pc = "failed" => args.clean_scene /\ raised = "RuntimeError"

\* A finished run of as many cameras as the bound allows.
C3_Witness ==
    /\ pc = "done"
    /\ args.num_cameras = MaxCameras
    /\ Cardinality(MyCameras) = args.num_cameras

\* A finished run of no camera at all.
C3_WitnessZero == pc = "done" /\ args.num_cameras = 0 /\ raised = "none"

\* C4: a run with clean_scene leaves no camera or light that was in the scene
\* when it began, and exactly num_cameras cameras and num_cameras lights; a
\* second such run, on the scene the first one populated, ends with the same
\* counts.
C4_CleanIdempotent ==
    (pc = "done" /\ args.clean_scene) =>
        /\ \A k \in 1..Len(scene) : Removable(scene[k]) => scene[k].id \notin pre
        /\ Cardinality(OfType("CAMERA")) = args.num_cameras
        /\ Cardinality(OfType("LIGHT")) = args.num_cameras

\* The second run ended, on a scene that held the first run's cameras and
\* their child lights.
C4_Witness ==
    /\ pc = "done"
    /\ run = 2
    /\ args.clean_scene
    /\ args.num_cameras >= 2
    /\ Cardinality(OfType("CAMERA")) = args.num_cameras
    /\ \E e \in 1..Len(log) : log[e][1] = "remove"

\* The objects that held `name` before the object at position k was created
HeldBefore(k, name) ==
    \E m \in 1..Len(scene) : scene[m].id < scene[k].id /\ scene[m].name = name

\* "Camera_<index>" / "Light_<index>" for the object at position k
Wanted(k) ==
    (IF scene[k].type = "CAMERA" THEN "Camera_" ELSE "Light_") \o ToString(scene[k].idx)

\* C5 as stated: whatever the scene held and whether or not clean_scene is
\* set, the camera and the light of index j carry the names "Camera_<j>"
\* and "Light_<j>".
C5_Original ==
    \A k \in MyCameras \cup MyLights : scene[k].name = Wanted(k)

\* C5, amended: the camera and the light of index j are given the names
\* "Camera_<j>" and "Light_<j>"; each carries exactly that name when no other
\* object of the scene holds it at that moment, and otherwise the name with
\* the host's first free numeric suffix (".001"), the plain name staying
\* with the older object.  No two objects of the scene share a name.
C5_Amended ==
    /\ \A k \in MyCameras \cup MyLights :
         IF HeldBefore(k, Wanted(k))
         THEN scene[k].name = Wanted(k) \o ".001"
         ELSE scene[k].name = Wanted(k)
    /\ \A k, m \in 1..Len(scene) : scene[k].name = scene[m].name => k = m
    /\ (run = 1 \/ args.clean_scene) => C5_Original

\* A second run without clean_scene: the names are taken by the first run's
\* objects.
C5_Witness ==
    /\ pc = "done"
    /\ run = 2
    /\ ~args.clean_scene
    /\ args.num_cameras >= 2
    /\ \E k \in MyCameras : scene[k].name = "Camera_2.001"
    /\ \E k \in MyLights : scene[k].name = "Light_2.001"
    /\ \E k \in 1..Len(scene) : scene[k].run = 1 /\ scene[k].name = "Camera_2"

\* C7 as stated: for every accepted configuration every camera's z satisfies
\* base_height <= z <= base_height + height_variation.
C7_Original ==
    \A k \in MyCameras :
        /\ args.base_height <= scene[k].place[3]
        /\ scene[k].place[3] <= args.base_height + args.height_variation

Lower == IF args.height_variation >= 0 THEN args.base_height
         ELSE args.base_height + args.height_variation
Upper == IF args.height_variation >= 0 THEN args.base_height + args.height_variation
         ELSE args.base_height

\* C7, amended: every camera's z lies between base_height and base_height +
\* height_variation: base_height <= z <= base_height + height_variation when
\* height_variation >= 0, and base_height + height_variation <= z <=
\* base_height when it is negative (the parser accepts that); with
\* height_variation = 0 every camera has z = base_height.
C7_Amended ==
    /\ \A k \in MyCameras : Lower <= scene[k].place[3] /\ scene[k].place[3] <= Upper
    /\ args.height_variation >= 0 => C7_Original
    /\ args.height_variation = 0 =>
          \A k \in MyCameras : scene[k].place[3] = args.base_height

\* A camera below base_height, and one at it, in the same run.
C7_Witness ==
    /\ args.height_variation < 0
    /\ \E k \in MyCameras : scene[k].place[3] < args.base_height
    /\ \E k \in MyCameras : scene[k].place[3] = args.base_height

Creations == SelectSeq(log, LAMBDA e : e[1] # "remove")

\* C8: with clean_scene every removal precedes the first creation (and
\* without it nothing is removed); creations come in increasing index order
\* 1..num_cameras, each camera immediately before its own light.
C8_Order ==
    /\ \A p, q \in 1..Len(log) : (p < q /\ log[q][1] = "remove") => log[p][1] = "remove"
    /\ \A p \in 1..Len(log) :
         log[p][1] = "remove" =>
            /\ args.clean_scene
            /\ log[p][2] \in pre
    /\ \A c \in 1..Len(Creations) :
         Creations[c] = IF c % 2 = 1 THEN <<"camera", (c + 1) \div 2>>
                        ELSE <<"light", c \div 2>>
    /\ Len(Creations) <= 2 * args.num_cameras
    /\ pc = "done" => Len(Creations) = 2 * args.num_cameras

\* A finished run that removed two objects and then created two pairs.
C8_Witness ==
    /\ pc = "done"
    /\ args.clean_scene
    /\ Len(log) >= 6
    /\ log[1][1] = "remove" /\ log[2][1] = "remove"
    /\ log[Len(log)] = <<"light", args.num_cameras>>
    /\ args.num_cameras >= 2

\* C9: at every point of a run, and in the state a host failure leaves, the
\* run's cameras are those of indices 1..k for some k <= num_cameras and its
\* lights those of 1..k or 1..k-1, each light the child of its camera; what
\* was created stays (no rollback), nothing is created twice (no retry), and
\* a run that ends without error has realised every index.
C9_Prefix ==
    LET k == Cardinality(MyCameras) IN
    /\ IdxOf(MyCameras) = 1..k
    /\ k <= args.num_cameras
    /\ IdxOf(MyLights) = 1..k \/ IdxOf(MyLights) = 1..(k - 1)
    /\ Cardinality(MyLights) = Cardinality(IdxOf(MyLights))
    /\ \A m \in MyLights :
         \E c \in MyCameras : scene[c].id = scene[m].parent /\ scene[c].idx = scene[m].idx
    /\ Len(Creations) = k + Cardinality(MyLights)
    /\ pc = "done" => (k = args.num_cameras /\ IdxOf(MyLights) = 1..k /\ raised = "none")
    /\ pc = "failed" => ~ENABLED Next

\* light_add failed at the second index: two cameras and one light stay.
C9_Witness ==
    /\ pc = "failed"
    /\ raised = "RuntimeError"
    /\ IdxOf(MyCameras) = {1, 2}
    /\ IdxOf(MyLights) = {1}

\* C10: the target is resolved once per run, before clean_scene and before
\* anything is created; main's look_at keeps that value and every camera of
\* the run is oriented with it, whatever the run does to the scene.
C10_OneTarget ==
    /\ resolves <= 1
    /\ (pc # "start") => resolves = 1
    /\ (log # <<>> \/ MyCameras # {}) => resolves = 1
    /\ (resolves = 1 /\ target0 # <<>>) => look_at = target0
    /\ \A k \in MyCameras : scene[k].aim = target0 /\ target0 # <<>>

\* The run changed the host so that resolving again would give another point.
C10_Witness ==
    /\ pc = "done"
    /\ args.num_cameras >= 2
    /\ args.use_selected_vertex
    /\ determine_look_at_point(args, scene, active, mode).val # target0
    /\ \A k \in MyCameras : scene[k].aim = target0

====
